---------------------------- MODULE Spec2Model ----------------------------
(***************************************************************************)
(* Model of server.js, the activity-recommendation service: the per-caller *)
(* daily quota (checkRateLimit and the daily sweep), the explore-          *)
(* destination pipeline around the awaited call to the generative backend, *)
(* the weather decision rules, the temperature conversion and the parser   *)
(* of the generated text.                                                  *)
(*                                                                         *)
(* JavaScript strings that the code searches, splits or trims are tuples   *)
(* of one-character strings, so that includes, split, trim and the two     *)
(* regular expressions are computed character by character.  JavaScript    *)
(* objects are records; a property that is absent (undefined) is a field   *)
(* that is not in the record's DOMAIN.                                     *)
(***************************************************************************)
EXTENDS Integers, Sequences, FiniteSets, TLC

VARIABLES
    today,          \* the server clock's calendar day (index of the local day)
    requestCounts,  \* the Map requestCounts: key -> count
    ideal,          \* history: the counts requestCounts would hold had no sweep run
    admits,         \* history: per key, the requests checkRateLimit has let through
    slots,          \* explore-destination requests suspended at the awaited fetch
    apiKey,         \* whether process.env.OPENAI_API_KEY is set
    started,        \* explore-destination requests received so far
    last,           \* history: the last operation, what it saw and what it answered
    rawText,        \* parser runs: the text given to parseResponse
    appended,       \* parser runs: the lines appended to the text
    parsed,         \* parser runs: what parseResponse returned
    reading,        \* advisor runs: the weatherData given to getWeatherRecommendations
    advice          \* advisor runs: what getWeatherRecommendations returned

vars == <<today, requestCounts, ideal, admits, slots, apiKey, started, last,
          rawText, appended, parsed, reading, advice>>

serverVars == <<today, requestCounts, ideal, admits, slots, started, last>>
parserVars == <<rawText, appended, parsed>>
advisorVars == <<reading, advice>>

---------------------------------------------------------------------------
\* Bounds of the model.

\* calendar days the clock runs through
MaxDay == 2
\* explore-destination requests received in one run
MaxRequests == 2
\* explore-destination requests suspended at the backend call at one time
MaxInFlight == 1
\* lines appended to the text of a parser run
MaxFreeLines == 2

---------------------------------------------------------------------------
\* JavaScript string operations, on tuples of characters.

\* String.prototype.includes
Includes(s, t) ==
    \E i \in 0..(Len(s) - Len(t)) : SubSeq(s, i + 1, i + Len(t)) = t

\* the characters JavaScript's trim and \s treat as white space
WhiteSpace == {" ", "\t", "\r"}

Digits == {"0", "1", "2", "3", "4", "5", "6", "7", "8", "9"}

DigitChar(n) ==
    CASE n = 0 -> "0" [] n = 1 -> "1" [] n = 2 -> "2" [] n = 3 -> "3" [] n = 4 -> "4"
      [] n = 5 -> "5" [] n = 6 -> "6" [] n = 7 -> "7" [] n = 8 -> "8" [] n = 9 -> "9"

---------------------------------------------------------------------------
\* The quota tracker.

DAILY_LIMIT == 60

\* caller addresses (req.ip)
IPs == {<<":", ":", "1">>, <<"1", "0", ".", "0", ".", "0", ".", "7">>}

WeekDays == <<<<"M", "o", "n">>, <<"T", "u", "e">>, <<"W", "e", "d">>, <<"T", "h", "u">>, <<"F",
        "r", "i">>, <<"S", "a", "t">>, <<"S", "u", "n">>>>

\* new Date().toDateString() on day d; day 1 is Mon Nov 02 2026
toDateString(d) ==
    WeekDays[((d - 1) % 7) + 1] \o <<" ", "N", "o", "v", " ">> \o
        <<DigitChar((d + 1) \div 10), DigitChar((d + 1) % 10)>> \o <<" ", "2", "0", "2", "6">>

\* `${ip}-${today}`
Key(ip, d) == ip \o <<"-">> \o toDateString(d)

\* Key, tabulated
Keys == [ip \in IPs, d \in 1..(MaxDay + 1) |-> Key(ip, d)]

\* toDateString, tabulated
DateStrings == [d \in 1..(MaxDay + 1) |-> toDateString(d)]

\* requestCounts.get(key) || 0
GetCount(counts, key) == IF key \in DOMAIN counts THEN counts[key] ELSE 0

\* requestCounts.set(key, n)
SetCount(counts, key, n) ==
    [k \in DOMAIN counts \cup {key} |-> IF k = key THEN n ELSE counts[k]]

\* Mutation for C1: the comparison of the limit test slips to >
checkRateLimitOffByOne(counts, key) ==
    LET count == GetCount(counts, key) IN
    IF count > DAILY_LIMIT
    THEN [next |-> FALSE, counts |-> counts]
    ELSE [next |-> TRUE, counts |-> SetCount(counts, key, count + 1)]

\* Mutation for C4: the count is stored before the limit is tested
checkRateLimitCountsFirst(counts, key) ==
    LET count == GetCount(counts, key) IN
    IF count >= DAILY_LIMIT
    THEN [next |-> FALSE, counts |-> SetCount(counts, key, count + 1)]
    ELSE [next |-> TRUE, counts |-> SetCount(counts, key, count + 1)]

\* checkRateLimit on the map `counts` for `key`: whether next() is called (else
\* the 429 is sent) and the map it leaves
checkRateLimit(counts, key) ==
    LET count == GetCount(counts, key) IN
    IF count >= DAILY_LIMIT
    THEN [next |-> FALSE, counts |-> counts]
    ELSE [next |-> TRUE, counts |-> SetCount(counts, key, count + 1)]

\* Mutation for C5: the test of the sweep loses its negation
sweepInverted(counts, d) ==
    LET keep == {k \in DOMAIN counts : ~Includes(k, DateStrings[d])} IN
    [k \in keep |-> counts[k]]

\* Mutation for C10: the sweep clears the whole map
sweepClearsAll(counts, d) ==
    LET keep == {k \in DOMAIN counts : FALSE} IN
    [k \in keep |-> counts[k]]

\* the body of the setInterval callback on day d: every key that does not
\* include the day's string is deleted
sweep(counts, d) ==
    LET keep == {k \in DOMAIN counts : Includes(k, DateStrings[d])} IN
    [k \in keep |-> counts[k]]

---------------------------------------------------------------------------
\* Prompt construction.

\* the JSON value null
JsNull == [null |-> TRUE]

\* the object {}
EmptyObject == [f \in {} |-> f]

Has(obj, f) == f \in DOMAIN obj

\* Array.prototype.join, as the sequence of the fragments
RECURSIVE Join(_, _)
Join(items, sep) ==
    IF Len(items) <= 1 THEN items
    ELSE <<Head(items), sep>> \o Join(Tail(items), sep)

budgetText(b) ==
    CASE b = "low" -> "budget-friendly"
      [] b = "medium" -> "moderately priced"
      [] b = "high" -> "premium"
      [] OTHER -> "undefined"

\* the message of the TypeError a property read of null raises
NullReadMessage == <<"C", "a", "n", "n", "o", "t", " ", "r", "e", "a", "d", " ", "p", "r", "o",
        "p", "e", "r", "t", "i", "e", "s", " ", "o", "f", " ", "n", "u", "l", "l", " ", "(", "r",
        "e", "a", "d", "i", "n", "g", " ", "'", "b", "u", "d", "g", "e", "t", "'", ")">>

\* buildPrompt(destination, timeOfYear, clientPreferences = {}): the prompt, as
\* the sequence of its text fragments, or the error it throws.  `body` is
\* req.body; the default {} replaces an absent clientPreferences only.
buildPrompt(body) ==
    LET prefs == IF Has(body, "clientPreferences") THEN body.clientPreferences
                 ELSE EmptyObject
        base == <<"You are a travel expert. Give me detailed activity recommendations for ",
                  body.destination, ".">>
        time == IF Has(body, "timeOfYear") /\ body.timeOfYear # ""
                THEN <<" The visit is planned for ", body.timeOfYear, ".">>
                ELSE <<>>
        budget == IF Has(prefs, "budget") /\ prefs.budget # ""
                  THEN <<" Focus on ", budgetText(prefs.budget), " activities.">>
                  ELSE <<>>
        interests == IF Has(prefs, "interests") /\ Len(prefs.interests) > 0
                     THEN <<" The traveler is interested in: ">>
                              \o Join(prefs.interests, ", ") \o <<".">>
                     ELSE <<>>
        group == IF Has(prefs, "groupSize") /\ prefs.groupSize # 0
                 THEN <<" This is for a group of ", ToString(prefs.groupSize), " people.">>
                 ELSE <<>>
        closing == <<"Please provide: 1. Top 10 specific activities with brief descriptions ",
                     "2. Local tips and insights ",
                     "3. Practical information (costs, timing, how to book) ",
                     "4. Hidden gems locals recommend ",
                     "Format your response clearly with sections and bullet points.">>
    IN  IF Has(prefs, "null")
        THEN [threw |-> TRUE, message |-> NullReadMessage]
        ELSE [threw |-> FALSE,
              prompt |-> base \o time \o budget \o interests \o group \o closing]

---------------------------------------------------------------------------
\* The parser of the generated text.

\* tips.slice(0, 10)
TipLimit == 10
\* tip.length > 10
MinTipLength == 10

BulletChars == {"-", "U+2022", "*"}

\* index of the first "\n" of s, 0 when there is none
RECURSIVE FirstNewline(_, _)
FirstNewline(s, i) ==
    IF i > Len(s) THEN 0
    ELSE IF s[i] = "\n" THEN i ELSE FirstNewline(s, i + 1)

\* rawResponse.split('\n')
RECURSIVE SplitLines(_)
SplitLines(s) ==
    LET i == FirstNewline(s, 1) IN
    IF i = 0 THEN <<s>>
    ELSE <<SubSeq(s, 1, i - 1)>> \o SplitLines(SubSeq(s, i + 1, Len(s)))

\* number of consecutive characters of `set` in s from index i on
RECURSIVE Run(_, _, _)
Run(s, i, set) ==
    IF i <= Len(s) /\ s[i] \in set THEN 1 + Run(s, i + 1, set) ELSE 0

\* number of consecutive characters of `set` in s from index i backwards
RECURSIVE RunBack(_, _, _)
RunBack(s, i, set) ==
    IF i >= 1 /\ s[i] \in set THEN 1 + RunBack(s, i - 1, set) ELSE 0

\* line.trim()
Trim(s) ==
    LET lead == Run(s, 1, WhiteSpace) IN
    IF lead = Len(s) THEN <<>>
    ELSE SubSeq(s, lead + 1, Len(s) - RunBack(s, Len(s), WhiteSpace))

\* length of the match of /^[-•*]\s+/ in line, 0 when it does not match
BulletMatch(line) ==
    IF Len(line) >= 2 /\ line[1] \in BulletChars /\ line[2] \in WhiteSpace
    THEN 1 + Run(line, 2, WhiteSpace)
    ELSE 0

\* length of the match of /^\d+\.\s+/ in line, 0 when it does not match
NumberMatch(line) ==
    LET d == Run(line, 1, Digits) IN
    IF d >= 1 /\ Len(line) >= d + 2 /\ line[d + 1] = "." /\ line[d + 2] \in WhiteSpace
    THEN d + 1 + Run(line, d + 2, WhiteSpace)
    ELSE 0

Drop(s, n) == SubSeq(s, n + 1, Len(s))

\* Mutation for C8: only the first replace is kept
stripMarkersBulletOnly(line) == Drop(line, BulletMatch(line))

\* line.replace(/^[-•*]\s+/, '').replace(/^\d+\.\s+/, '')
stripMarkers(line) ==
    LET afterBullet == Drop(line, BulletMatch(line)) IN
    Drop(afterBullet, NumberMatch(afterBullet))

\* the loop of parseResponse over lines[i..], pushing onto tips
RECURSIVE CollectTips(_, _, _)
CollectTips(lines, i, tips) ==
    IF i > Len(lines) THEN tips
    ELSE LET line == Trim(lines[i])
             tip == stripMarkers(line)
         IN  IF (BulletMatch(line) > 0 \/ NumberMatch(line) > 0) /\ Len(tip) > MinTipLength
             THEN CollectTips(lines, i + 1, Append(tips, tip))
             ELSE CollectTips(lines, i + 1, tips)

\* Array.prototype.slice(0, n)
SliceTo(seq, n) == SubSeq(seq, 1, IF Len(seq) < n THEN Len(seq) ELSE n)

parseResponse(rawResponse) ==
    SliceTo(CollectTips(SplitLines(rawResponse), 1, <<>>), TipLimit)

---------------------------------------------------------------------------
\* The weather advisor.

UpperCase == <<"A", "B", "C", "D", "E", "F", "G", "H", "I", "J", "K", "L", "M",
               "N", "O", "P", "Q", "R", "S", "T", "U", "V", "W", "X", "Y", "Z">>
LowerCase == <<"a", "b", "c", "d", "e", "f", "g", "h", "i", "j", "k", "l", "m",
               "n", "o", "p", "q", "r", "s", "t", "u", "v", "w", "x", "y", "z">>

\* String.prototype.toLowerCase
toLowerCase(s) ==
    [i \in 1..Len(s) |->
        IF \E j \in 1..26 : UpperCase[j] = s[i]
        THEN LowerCase[CHOOSE j \in 1..26 : UpperCase[j] = s[i]]
        ELSE s[i]]

\* obj.f > n and obj.f < n, false when the property is absent (undefined)
Gt(obj, f, n) == Has(obj, f) /\ obj[f] > n
Lt(obj, f, n) == Has(obj, f) /\ obj[f] < n
Ge(obj, f, n) == Has(obj, f) /\ obj[f] >= n
Le(obj, f, n) == Has(obj, f) /\ obj[f] <= n

Advice(rec, msg, why, col) ==
    [recommendation |-> rec, message |-> msg, reason |-> why, color |-> col]

\* Mutation for C6: the lower bound of the ideal range becomes strict
getWeatherRecommendationsStrict(weatherData) ==
    LET lowerConditions == IF Has(weatherData, "conditions")
                           THEN toLowerCase(weatherData.conditions) ELSE <<>>
        isBadWeather == \/ Includes(lowerConditions, <<"r", "a", "i", "n">>)
                        \/ Includes(lowerConditions, <<"s", "t", "o", "r", "m">>)
                        \/ Includes(lowerConditions, <<"s", "n", "o", "w">>)
        isHighUV == Gt(weatherData, "uvindex", 8)
    IN  IF isBadWeather
        THEN Advice("stay-indoors", "Stay indoors", "Poor weather conditions", "#F57C00")
        ELSE IF Gt(weatherData, "windspeed", 25)
        THEN Advice("stay-indoors", "Stay indoors", "Very windy", "#F57C00")
        ELSE IF Gt(weatherData, "temp", 95)
        THEN Advice("limited-outdoor", "Limited outdoor time",
                    "Extreme heat - stay hydrated", "#FF5722")
        ELSE IF Lt(weatherData, "temp", 25)
        THEN Advice("limited-outdoor", "Limited outdoor time",
                    "Extreme cold - dress warmly", "#2196F3")
        ELSE IF Gt(weatherData, "temp", 70) /\ Le(weatherData, "temp", 85) /\ ~isHighUV
        THEN Advice("perfect-outdoor", "Perfect for outdoor activities",
                    "Ideal conditions", "#4CAF50")
        ELSE IF Ge(weatherData, "temp", 60) /\ Le(weatherData, "temp", 90)
        THEN Advice("good-outdoor", "Great for outdoor activities",
                    IF isHighUV THEN "Good weather - use sun protection"
                    ELSE "Good conditions", "#4CAF50")
        ELSE Advice("moderate-outdoor", "Moderate outdoor conditions",
                    "Fair weather", "#FF9800")

getWeatherRecommendations(weatherData) ==
    LET lowerConditions == IF Has(weatherData, "conditions")
                           THEN toLowerCase(weatherData.conditions) ELSE <<>>
        isBadWeather == \/ Includes(lowerConditions, <<"r", "a", "i", "n">>)
                        \/ Includes(lowerConditions, <<"s", "t", "o", "r", "m">>)
                        \/ Includes(lowerConditions, <<"s", "n", "o", "w">>)
        isVeryWindy == Gt(weatherData, "windspeed", 25)
        isVeryHot == Gt(weatherData, "temp", 95)
        isVeryCold == Lt(weatherData, "temp", 25)
        isHighUV == Gt(weatherData, "uvindex", 8)
    IN  IF isBadWeather
        THEN Advice("stay-indoors", "Stay indoors", "Poor weather conditions", "#F57C00")
        ELSE IF isVeryWindy
        THEN Advice("stay-indoors", "Stay indoors", "Very windy", "#F57C00")
        ELSE IF isVeryHot
        THEN Advice("limited-outdoor", "Limited outdoor time",
                    "Extreme heat - stay hydrated", "#FF5722")
        ELSE IF isVeryCold
        THEN Advice("limited-outdoor", "Limited outdoor time",
                    "Extreme cold - dress warmly", "#2196F3")
        ELSE IF Ge(weatherData, "temp", 70) /\ Le(weatherData, "temp", 85) /\ ~isHighUV
        THEN Advice("perfect-outdoor", "Perfect for outdoor activities",
                    "Ideal conditions", "#4CAF50")
        ELSE IF Ge(weatherData, "temp", 60) /\ Le(weatherData, "temp", 90)
        THEN Advice("good-outdoor", "Great for outdoor activities",
                    IF isHighUV THEN "Good weather - use sun protection"
                    ELSE "Good conditions", "#4CAF50")
        ELSE Advice("moderate-outdoor", "Moderate outdoor conditions",
                    "Fair weather", "#FF9800")

---------------------------------------------------------------------------
\* Temperature conversion.

\* Math.round(n / d) for an integer n and d > 0: the nearest integer, a tie
\* going up
RoundDiv(n, d) == (2 * n + d) \div (2 * d)

convertTemperature(tempF, unit) ==
    IF unit = "C" THEN RoundDiv((tempF - 32) * 5, 9) ELSE tempF

\* `${convertedTemp}°${unit}`, as the sequence of its parts
getTemperatureDisplay(temp, unit) ==
    <<ToString(convertTemperature(temp, unit)), "U+00B0", unit>>

---------------------------------------------------------------------------
\* The explore-destination pipeline.

\* generalTips.length < 5
MinTips == 5

FallbackTips ==
    << <<"V", "i", "s", "i", "t", " ", "t", "h", "e", " ", "m", "a", "i", "n", " ", "t", "o", "u",
        "r", "i", "s", "t", " ", "i", "n", "f", "o", "r", "m", "a", "t", "i", "o", "n", " ", "c",
        "e", "n", "t", "e", "r">>,
       <<"A", "s", "k", " ", "y", "o", "u", "r", " ", "h", "o", "t", "e", "l", " ", "c", "o", "n",
        "c", "i", "e", "r", "g", "e", " ", "f", "o", "r", " ", "l", "o", "c", "a", "l", " ", "r",
        "e", "c", "o", "m", "m", "e", "n", "d", "a", "t", "i", "o", "n", "s">>,
       <<"C", "h", "e", "c", "k", " ", "l", "o", "c", "a", "l", " ", "e", "v", "e", "n", "t", " ",
        "c", "a", "l", "e", "n", "d", "a", "r", "s", " ", "f", "o", "r", " ", "f", "e", "s", "t",
        "i", "v", "a", "l", "s">>,
       <<"T", "r", "y", " ", "l", "o", "c", "a", "l", " ", "r", "e", "s", "t", "a", "u", "r", "a",
        "n", "t", "s", " ", "r", "e", "c", "o", "m", "m", "e", "n", "d", "e", "d", " ", "b", "y",
        " ", "r", "e", "s", "i", "d", "e", "n", "t", "s">>,
       <<"E", "x", "p", "l", "o", "r", "e", " ", "n", "e", "a", "r", "b", "y", " ", "n", "e", "i",
        "g", "h", "b", "o", "r", "h", "o", "o", "d", "s", " ", "o", "n", " ", "f", "o", "o",
        "t">> >>

\* Mutation for C7: the fallback block is pushed whatever the number of tips
successResponseAlwaysPads(rawResponse) ==
    LET generalTips == parseResponse(rawResponse) IN
    [status |-> 200, success |-> TRUE,
     data |-> [recommendations |-> [generalTips |-> generalTips \o FallbackTips],
               rawResponse |-> rawResponse]]

\* the handler from parseResponse to res.json: the 200 response for the text
\* the backend returned
successResponse(rawResponse) ==
    LET generalTips == parseResponse(rawResponse)
        padded == IF Len(generalTips) < MinTips
                  THEN generalTips \o FallbackTips ELSE generalTips
    IN  [status |-> 200, success |-> TRUE,
         data |-> [recommendations |-> [generalTips |-> padded],
                   rawResponse |-> rawResponse]]

\* the catch block of the handler, for the message of the error caught
catchResponse(message) ==
    IF Includes(message, <<"A", "P", "I", " ", "k", "e", "y">>)
    THEN [status |-> 500, error |-> "Service configuration error"]
    ELSE [status |-> 500, error |-> "Failed to get recommendations", message |-> message]

NotConfiguredMessage == <<"O", "p", "e", "n", "A", "I", " ", "A", "P", "I", " ", "k", "e", "y",
        " ", "n", "o", "t", " ", "c", "o", "n", "f", "i", "g", "u", "r", "e", "d">>
DefaultBackendMessage == <<"O", "p", "e", "n", "A", "I", " ", "A", "P", "I", " ", "e", "r", "r",
        "o", "r">>
FetchFailedMessage == <<"f", "e", "t", "c", "h", " ", "f", "a", "i", "l", "e", "d">>
NoChoicesMessage == <<"C", "a", "n", "n", "o", "t", " ", "r", "e", "a", "d", " ", "p", "r", "o",
        "p", "e", "r", "t", "i", "e", "s", " ", "o", "f", " ", "u", "n", "d", "e", "f", "i", "n",
        "e", "d", " ", "(", "r", "e", "a", "d", "i", "n", "g", " ", "'", "0", "'", ")">>

\* request bodies of explore-destination
ExploreBodies ==
    { [timeOfYear |-> "July"],
      [destination |-> ""],
      [destination |-> "Lisbon"],
      [destination |-> "Lisbon", clientPreferences |-> JsNull],
      [destination |-> "Lisbon", timeOfYear |-> "July",
       clientPreferences |-> [budget |-> "low", interests |-> <<"art", "food">>,
                              groupSize |-> 2]] }

\* !destination is false
HasDestination(body) == Has(body, "destination") /\ body.destination # ""

\* the handler up to its first suspension: the response it sends without
\* calling the backend, or the prompt of the fetch it issues
exploreStart(body, credential) ==
    IF ~HasDestination(body)
    THEN [suspend |-> FALSE, cause |-> "input",
          resp |-> [status |-> 400, error |-> "Destination is required"]]
    ELSE LET built == buildPrompt(body) IN
         IF built.threw
         THEN [suspend |-> FALSE, cause |-> "prompt", resp |-> catchResponse(built.message)]
         ELSE IF ~credential
         THEN [suspend |-> FALSE, cause |-> "credential",
               resp |-> catchResponse(NotConfiguredMessage)]
         ELSE [suspend |-> TRUE, cause |-> "none", prompt |-> built.prompt]

\* a numbered line of generated text whose tip has 11 characters
TipLine(i) == <<"-", " ", "A", "c", "t", "i", "v", "i", "t", "y", " ">> \o <<DigitChar(i \div 10),
        DigitChar(i % 10)>>

RECURSIVE TextOf(_)
TextOf(n) == IF n = 1 THEN TipLine(1) ELSE TextOf(n - 1) \o <<"\n">> \o TipLine(n)

\* texts the backend returns: no tip, 3 tips, 5 tips, 11 qualifying lines
RawTexts ==
    { <<"S", "o", "r", "r", "y", ",", " ", "I", " ", "h", "a", "v", "e", " ", "n", "o", " ", "s",
        "u", "g", "g", "e", "s", "t", "i", "o", "n", "s", ".">>,
      <<"T", "o", "p", " ", "p", "i", "c", "k", "s", ":", "\n", "1", ".", " ", "V", "i", "s", "i",
        "t", " ", "t", "h", "e", " ", "o", "l", "d", " ", "t", "o", "w", "n", "\n", "-", " ", "S",
        "e", "e", " ", "t", "h", "e", " ", "c", "a", "t", "h", "e", "d", "r", "a", "l", "\n", "*",
        " ", "o", "k", "\n", "2", ".", " ", "W", "a", "l", "k", " ", "a", "l", "o", "n", "g", " ",
        "t", "h", "e", " ", "r", "i", "v", "e", "r">>,
      TextOf(5), TextOf(11) }

\* error messages of non-success responses of the backend
BackendMessages == { <<"R", "a", "t", "e", " ", "l", "i", "m", "i", "t", " ", "r", "e", "a", "c",
        "h", "e", "d", " ", "f", "o", "r", " ", "r", "e", "q", "u", "e", "s", "t", "s">>, <<"I",
        "n", "c", "o", "r", "r", "e", "c", "t", " ", "A", "P", "I", " ", "k", "e", "y", " ", "p",
        "r", "o", "v", "i", "d", "e", "d">> }

\* what the awaited call can come back with: the fetch rejects; a non-success
\* response whose JSON carries error.message, or none; a success response
\* carrying the text, or no choices
BackendOutcomes ==
    {[kind |-> "reject"], [kind |-> "notOk"], [kind |-> "malformed"]}
        \cup {[kind |-> "notOk", message |-> m] : m \in BackendMessages}
        \cup {[kind |-> "ok", content |-> t] : t \in RawTexts}

\* getRecommendations from the awaited fetch on: the text it returns or the
\* message of the error it throws
getRecommendations(outcome) ==
    CASE outcome.kind = "reject" -> [threw |-> TRUE, message |-> FetchFailedMessage]
      [] outcome.kind = "notOk" ->
            [threw |-> TRUE,
             message |-> IF Has(outcome, "message") THEN outcome.message
                         ELSE DefaultBackendMessage]
      [] outcome.kind = "malformed" -> [threw |-> TRUE, message |-> NoChoicesMessage]
      [] outcome.kind = "ok" -> [threw |-> FALSE, content |-> outcome.content]

\* the handler from the resumption of the awaited call to its response
exploreResume(outcome) ==
    LET got == getRecommendations(outcome) IN
    IF got.threw THEN catchResponse(got.message) ELSE successResponse(got.content)

\* exploreResume, tabulated over the outcomes
ResumeResponses == [outcome \in BackendOutcomes |-> exploreResume(outcome)]

---------------------------------------------------------------------------
\* The server.

Idle == [pc |-> "idle"]

Slots == 1..MaxInFlight

FreeSlots == {i \in Slots : slots[i].pc = "idle"}

Min(S) == CHOOSE x \in S : \A y \in S : x <= y

\* the caller that has made requests before a run starts
BusyIP == <<"1", "0", ".", "0", ".", "0", ".", "7">>

\* counts the busy caller's key can hold at the start of a run: none yet, one
\* place left, none left
WarmCounts == {0, DAILY_LIMIT - 1, DAILY_LIMIT}

\* the map holding n for the busy caller's key of day d, empty when n = 0
MapOfDay(n, d) ==
    [k \in {Key(ip, d) : ip \in {BusyIP} \cap {ip \in IPs : n > 0}} |-> n]

\* the server with the counts of day 1 in requestCounts and nothing in flight
ServerInit(counts) ==
    /\ today = 1
    /\ requestCounts = counts
    /\ ideal = counts
    /\ admits = counts
    /\ slots = [i \in Slots |-> Idle]
    /\ started = 0
    /\ last = [op |-> "start"]

ParserIdle ==
    /\ rawText = <<>>
    /\ appended = 0
    /\ parsed = [done |-> FALSE]

AdvisorIdle ==
    /\ reading = EmptyObject
    /\ advice = [done |-> FALSE]

\* the server just constructed (requestCounts empty) or after one caller's
\* requests of day 1, with the credential configured or not
Init ==
    /\ apiKey \in BOOLEAN
    /\ \E n \in WarmCounts : ServerInit(MapOfDay(n, 1))
    /\ ParserIdle
    /\ AdvisorIdle

\* POST /api/explore-destination from its arrival to its first suspension:
\* checkRateLimit, then the handler up to the response or the awaited fetch
ExploreDestination(ip, body) ==
    LET key == Keys[ip, today]
        limit == checkRateLimit(requestCounts, key)
        idealLimit == checkRateLimit(ideal, key)
        start == exploreStart(body, apiKey)
        suspended == limit.next /\ start.suspend
    IN  /\ started < MaxRequests
        /\ suspended => FreeSlots # {}
        /\ started' = started + 1
        /\ requestCounts' = limit.counts
        /\ ideal' = idealLimit.counts
        /\ admits' = IF limit.next
                     THEN SetCount(admits, key, GetCount(admits, key) + 1)
                     ELSE admits
        /\ slots' = IF suspended
                    THEN [slots EXCEPT ![Min(FreeSlots)] =
                              [pc |-> "fetch", key |-> key, calls |-> 1,
                               nth |-> GetCount(limit.counts, key)]]
                    ELSE slots
        /\ last' = [op |-> "explore", key |-> key,
                    countBefore |-> GetCount(requestCounts, key),
                    admitted |-> limit.next,
                    idealAdmitted |-> idealLimit.next,
                    hasDestination |-> HasDestination(body),
                    cause |-> IF limit.next THEN start.cause ELSE "quota",
                    calls |-> IF suspended THEN 1 ELSE 0,
                    done |-> ~suspended,
                    sent |-> IF suspended THEN start.prompt ELSE <<>>,
                    resp |-> IF ~limit.next
                             THEN [status |-> 429,
                                   error |-> "Daily limit reached - try again tomorrow"]
                             ELSE IF start.suspend THEN [status |-> 0]
                             ELSE start.resp]
        /\ UNCHANGED <<today, apiKey, parserVars, advisorVars>>

\* the awaited backend call of the request in slot i comes back with `outcome`
\* and the handler runs to its response
ExploreResume(i, outcome) ==
    /\ slots[i].pc = "fetch"
    /\ slots' = [slots EXCEPT ![i] = Idle]
    /\ last' = [op |-> "resume", calls |-> slots[i].calls,
                done |-> TRUE, cause |-> outcome.kind, outcome |-> outcome,
                resp |-> ResumeResponses[outcome]]
    /\ UNCHANGED <<today, requestCounts, ideal, admits, apiKey, started,
                   parserVars, advisorVars>>

\* request bodies of weather-recommendations
WeatherBodies ==
    { [units |-> "F"],
      [weatherData |-> [temp |-> 75, conditions |-> <<"C", "l", "e", "a", "r">>, windspeed |-> 5,
                        uvindex |-> 3]],
      [weatherData |-> [temp |-> 70, conditions |-> <<"R", "a", "i", "n", " ", "s", "h", "o", "w",
        "e", "r", "s">>, windspeed |-> 5,
                        uvindex |-> 2]] }

\* POST /api/weather-recommendations
WeatherRecommendations(body) ==
    /\ last' = [op |-> "weather",
                hasRequired |-> Has(body, "weatherData"),
                calls |-> 0,
                resp |-> IF ~Has(body, "weatherData")
                         THEN [status |-> 400, error |-> "Weather data is required"]
                         ELSE [status |-> 200, success |-> TRUE,
                               data |-> getWeatherRecommendations(body.weatherData)]]
    /\ UNCHANGED <<today, requestCounts, ideal, admits, slots, apiKey, started,
                   parserVars, advisorVars>>

\* request bodies of convert-temperature
ConvertBodies ==
    { [unit |-> "C"], [temp |-> 72, unit |-> ""],
      [temp |-> 0, unit |-> "C"], [temp |-> 99, unit |-> "F"] }

ConvertRequired(body) == Has(body, "temp") /\ Has(body, "unit") /\ body.unit # ""

\* POST /api/convert-temperature
ConvertTemperature(body) ==
    /\ last' = [op |-> "convert",
                hasRequired |-> ConvertRequired(body),
                calls |-> 0,
                resp |-> IF ~ConvertRequired(body)
                         THEN [status |-> 400, error |-> "Temperature and unit are required"]
                         ELSE [status |-> 200, success |-> TRUE,
                               data |-> [original |-> body.temp,
                                         converted |-> convertTemperature(body.temp, body.unit),
                                         display |-> getTemperatureDisplay(body.temp, body.unit),
                                         unit |-> body.unit]]]
    /\ UNCHANGED <<today, requestCounts, ideal, admits, slots, apiKey, started,
                   parserVars, advisorVars>>

\* the setInterval callback runs
Sweep ==
    /\ requestCounts' = sweep(requestCounts, today)
    /\ last' = [op |-> "sweep",
                removed |-> Cardinality(DOMAIN requestCounts)
                              - Cardinality(DOMAIN sweep(requestCounts, today))]
    /\ UNCHANGED <<today, ideal, admits, slots, apiKey, started, parserVars, advisorVars>>

\* midnight passes: the clock's calendar day advances
Midnight ==
    /\ today < MaxDay
    /\ today' = today + 1
    /\ last' = [op |-> "midnight"]
    /\ UNCHANGED <<requestCounts, ideal, admits, slots, apiKey, started,
                   parserVars, advisorVars>>

Next ==
    \/ \E ip \in IPs, body \in ExploreBodies : ExploreDestination(ip, body)
    \/ \E i \in Slots, outcome \in BackendOutcomes : ExploreResume(i, outcome)
    \/ \E body \in WeatherBodies : WeatherRecommendations(body)
    \/ \E body \in ConvertBodies : ConvertTemperature(body)
    \/ Sweep
    \/ Midnight

Spec == Init /\ [][Next]_vars

---------------------------------------------------------------------------
\* Runs of the weather advisor alone, over a grid of readings.

GridTemps == {24, 25, 26, 59, 60, 61, 69, 70, 71, 75, 85, 86, 90, 91, 95, 96}
GridWinds == {25, 26}
GridUV == {8, 9}
BadConditions == { <<"R", "a", "i", "n", " ", "s", "h", "o", "w", "e", "r", "s">>, <<"T", "H", "U",
        "N", "D", "E", "R", "S", "T", "O", "R", "M">>, <<"L", "i", "g", "h", "t", " ", "S", "n",
        "o", "w">>, <<"d", "r", "a", "i", "n", "s">> }
FairConditions == { <<"c", "l", "e", "a", "r">>, <<"S", "u", "n", "n", "y", ",", " ", "n", "o",
        " ", "r", "a", "i">>, <<>> }

WeatherGrid ==
    { [temp |-> t, windspeed |-> w, uvindex |-> u] :
          t \in GridTemps, w \in GridWinds, u \in GridUV }
    \cup { [temp |-> t, conditions |-> c, windspeed |-> w, uvindex |-> u] :
          t \in GridTemps, c \in BadConditions \cup FairConditions,
          w \in GridWinds, u \in GridUV }

InitWeather ==
    /\ apiKey = TRUE
    /\ ServerInit(EmptyObject)
    /\ ParserIdle
    /\ reading \in WeatherGrid
    /\ advice = [done |-> FALSE]

\* getWeatherRecommendations is called on the reading
Advise ==
    /\ ~advice.done
    /\ advice' = [done |-> TRUE, data |-> getWeatherRecommendations(reading)]
    /\ UNCHANGED <<reading, serverVars, apiKey, parserVars>>

NextWeather == Advise

SpecWeather == InitWeather /\ [][NextWeather]_vars

---------------------------------------------------------------------------
\* Runs of the parser alone, over texts built line by line.

\* lines of generated text: markers of each kind, with and without the white
\* space after them, doubled, indented, and tips around the length limit
FreeLines ==
    { <<"-", " ", "S", "e", "e", " ", "t", "h", "e", " ", "c", "a", "t", "h", "e", "d", "r", "a",
        "l">>,
      <<"*", " ", "o", "k">>,
      <<"1", ".", " ", "V", "i", "s", "i", "t", " ", "t", "h", "e", " ", "o", "l", "d", " ", "t",
        "o", "w", "n">>,
      <<"1", "2", ".", " ", " ", "W", "a", "l", "k", " ", "t", "h", "e", " ", "o", "l", "d", " ",
        "w", "a", "l", "l", "s", " ">>,
      <<"U+2022">> \o <<" ", "R", "i", "d", "e", " ", "t", "h", "e", " ", "t", "r", "a", "m", " ",
        "2", "8">>,
      <<" ", " ", "-", "\t", "T", "a", "b", "b", "e", "d", " ", "b", "u", "l", "l", "e", "t", " ",
        "t", "i", "p", "\r">>,
      <<"-", "N", "o", " ", "s", "p", "a", "c", "e", " ", "a", "f", "t", "e", "r", " ", "d", "a",
        "s", "h">>,
      <<"1", ".", "N", "o", " ", "s", "p", "a", "c", "e", " ", "a", "f", "t", "e", "r", " ", "n",
        "u", "m", "b", "e", "r">>,
      <<"P", "l", "a", "i", "n", " ", "s", "e", "n", "t", "e", "n", "c", "e", " ", "w", "i", "t",
        "h", "o", "u", "t", " ", "m", "a", "r", "k", "e", "r">>,
      <<"-", " ", "1", ".", " ", "C", "l", "i", "m", "b", " ", "t", "h", "e", " ", "t", "o", "w",
        "e", "r">>,
      <<"-", " ", "2", ".", " ", "E", "a", "t", " ", "a", " ", "t", "a", "r", "t">>,
      <<"1", ".", " ", "-", " ", "T", "a", "k", "e", " ", "t", "h", "e", " ", "f", "e", "r", "r",
        "y">>,
      <<"-", " ", "a", "b", "c", "d", "e", "f", "g", "h", "i", "j">>,
      <<>> }

InitParse ==
    /\ apiKey = TRUE
    /\ ServerInit(EmptyObject)
    /\ AdvisorIdle
    /\ appended = 0
    /\ parsed = [done |-> FALSE]
    /\ \E n \in {0, TipLimit - 1, TipLimit} : rawText = IF n = 0 THEN <<>> ELSE TextOf(n)

\* one more line of text arrives
AppendLine(line) ==
    /\ ~parsed.done
    /\ appended < MaxFreeLines
    /\ appended' = appended + 1
    /\ rawText' = IF rawText = <<>> /\ appended = 0 THEN line
                  ELSE rawText \o <<"\n">> \o line
    /\ UNCHANGED <<parsed, serverVars, apiKey, advisorVars>>

\* parseResponse is called on the text
Parse ==
    /\ ~parsed.done
    /\ parsed' = [done |-> TRUE, tips |-> parseResponse(rawText)]
    /\ UNCHANGED <<rawText, appended, serverVars, apiKey, advisorVars>>

NextParse ==
    \/ \E line \in FreeLines : AppendLine(line)
    \/ Parse

SpecParse == InitParse /\ [][NextParse]_vars

---------------------------------------------------------------------------
\* Properties of the quota tracker.

\* the day component of a key
KeyDay(k) == CHOOSE d \in 1..(MaxDay + 1) : \E ip \in IPs : k = Keys[ip, d]

\* the requests for last.key let through before the last request arrived
AdmitsBefore == GetCount(admits, last.key) - (IF last.admitted THEN 1 ELSE 0)

\* C1: for every key, whatever requests are suspended at the backend call, no
\* stored count and no number of requests let through exceeds 60, and a
\* request arriving when 60 have been let through for its key gets the 429
C1_AtMostSixtyPerKey ==
    /\ \A k \in DOMAIN requestCounts : requestCounts[k] <= 60
    /\ \A k \in DOMAIN admits : admits[k] <= 60
    /\ last.op = "explore" /\ AdmitsBefore >= 60
          => ~last.admitted /\ last.resp.status = 429 /\ last.calls = 0

\* C1's case: a request took the 60th place of its key and is suspended at the
\* backend call when the next request of the same key arrives and is rejected
C1_Witness ==
    /\ last.op = "explore"
    /\ ~last.admitted
    /\ last.resp.status = 429
    /\ \E i \in Slots :
          slots[i].pc = "fetch" /\ slots[i].key = last.key /\ slots[i].nth = 60

\* C4: a request that finds its key's count at 60 or more leaves requestCounts
\* as it was, entry for entry, gets the 429 and does not reach the handler
C4_RejectionChangesNothing ==
    [][(last'.op = "explore" /\ started' # started
            /\ GetCount(requestCounts, last'.key) >= 60)
        => /\ requestCounts' = requestCounts
           /\ admits' = admits
           /\ slots' = slots
           /\ last'.resp.status = 429
           /\ last'.cause = "quota"
           /\ last'.calls = 0]_vars

\* C4's case: a request was rejected at the limit while the map holds another
\* caller's entry
C4_Witness ==
    /\ last.op = "explore"
    /\ last.countBefore = 60
    /\ last.resp.status = 429
    /\ \E k \in DOMAIN requestCounts : k # last.key
    /\ requestCounts[last.key] = 60

\* C5: a run of the sweep on day T leaves no key of another day, and leaves
\* every key of day T in place with its count
C5_SweepKeepsToday ==
    [][last'.op = "sweep"
        => /\ \A k \in DOMAIN requestCounts' : KeyDay(k) = today
           /\ \A k \in DOMAIN requestCounts :
                 KeyDay(k) = today
                     => k \in DOMAIN requestCounts' /\ requestCounts'[k] = requestCounts[k]]_vars

\* C5's case: a sweep deleted a key of an earlier day and kept a key of its day
C5_Witness ==
    /\ last.op = "sweep"
    /\ last.removed > 0
    /\ \E k \in DOMAIN requestCounts : KeyDay(k) = today
    /\ \E k \in DOMAIN ideal : KeyDay(k) # today /\ k \notin DOMAIN requestCounts

\* C10: with the clock never going back, every call of checkRateLimit lets the
\* request through exactly when it would have had no sweep ever run
C10_SweepInvisible ==
    last.op = "explore" => last.admitted = last.idealAdmitted

\* C10's case: a caller rejected at the limit on day 1 is let through on day 2
\* after a sweep has deleted the key of day 1
C10_Witness ==
    /\ last.op = "explore"
    /\ last.admitted
    /\ today = 2
    /\ \E ip \in IPs :
          /\ last.key = Keys[ip, 2]
          /\ Keys[ip, 1] \in DOMAIN ideal
          /\ ideal[Keys[ip, 1]] = 60
          /\ Keys[ip, 1] \notin DOMAIN requestCounts

---------------------------------------------------------------------------
\* Properties of the explore-destination pipeline.

\* C2: a missing credential is answered 'Service configuration error', and a
\* non-success response of the backend is answered 'Failed to get
\* recommendations' with the backend's message, whatever that message is
C2_DistinctErrorKinds ==
    /\ last.op = "explore" /\ last.cause = "credential"
          => last.resp.error = "Service configuration error"
    /\ last.op = "resume" /\ last.cause = "notOk"
          => /\ last.resp.error = "Failed to get recommendations"
             /\ Has(last.outcome, "message") => last.resp.message = last.outcome.message

\* whether the last request carried the fields its endpoint requires
RequiredPresent(l) ==
    IF l.op = "explore" THEN l.hasDestination ELSE l.hasRequired

\* C3: a request lacking a required field, unless the quota rejects it first,
\* is answered 400 with requestCounts as it was and no call to the backend
C3_InvalidInputNoSideEffect ==
    [][(/\ last'.op \in {"explore", "weather", "convert"}
        /\ last' # last
        /\ ~RequiredPresent(last')
        /\ last'.resp.status # 429)
        => /\ last'.resp.status = 400
           /\ last'.calls = 0
           /\ slots' = slots
           /\ requestCounts' = requestCounts]_vars

\* C9: a request that is quota-rejected, lacks the destination or finds no
\* credential makes no call to the backend; every other request makes exactly
\* one, and when that call fails the response carries the error and no tips
C9_OneCallOrNone ==
    (last.op \in {"explore", "resume"} /\ last.done)
        => /\ last.calls =
                 IF last.op = "explore"
                    /\ (~last.admitted \/ ~last.hasDestination \/ ~apiKey)
                 THEN 0 ELSE 1
           /\ (last.op = "resume" /\ last.cause # "ok")
                 => last.resp.status = 500 /\ ~Has(last.resp, "data")

\* parseResponse, tabulated over the texts of the backend
ParsedTexts == [t \in RawTexts |-> parseResponse(t)]

\* C7: the tips of a successful response are the n parsed tips, followed by the
\* five fallback tips exactly when n < 5, and rawResponse is the backend's text
C7_FallbackWhenFewTips ==
    (last.op = "resume" /\ last.cause = "ok")
        => LET text == last.outcome.content
               tips == ParsedTexts[text]
               n == Len(tips)
               got == last.resp.data.recommendations.generalTips
           IN  /\ last.resp.status = 200
               /\ last.resp.data.rawResponse = text
               /\ n < 5 => /\ Len(got) = n + 5
                           /\ SubSeq(got, 1, n) = tips
                           /\ SubSeq(got, n + 1, n + 5) = FallbackTips
               /\ n >= 5 => got = tips

\* C7's case: a text with 3 tips came back and 8 tips were returned
C7_Witness ==
    /\ last.op = "resume"
    /\ last.cause = "ok"
    /\ Len(ParsedTexts[last.outcome.content]) = 3
    /\ Len(last.resp.data.recommendations.generalTips) = 8
    /\ last.resp.data.recommendations.generalTips[2] = <<"S", "e", "e", " ", "t", "h", "e", " ",
        "c", "a", "t", "h", "e", "d", "r", "a", "l">>
    /\ last.resp.data.recommendations.generalTips[4] = FallbackTips[1]

---------------------------------------------------------------------------
\* Properties of the weather advisor.

\* the rules of the advisor as the specification lists them, on a reading of
\* the grid: which of the 7 rules the reading matches
RuleMatches(r) ==
    [i \in 1..7 |->
        CASE i = 1 -> Has(r, "conditions") /\ r.conditions \in BadConditions
          [] i = 2 -> r.windspeed > 25
          [] i = 3 -> r.temp > 95
          [] i = 4 -> r.temp < 25
          [] i = 5 -> r.temp \in 70..85 /\ r.uvindex <= 8
          [] i = 6 -> r.temp \in 60..90
          [] i = 7 -> TRUE]

FirstRule(r) == Min({i \in 1..7 : RuleMatches(r)[i]})

RuleAdvice ==
    << "stay-indoors", "stay-indoors", "limited-outdoor", "limited-outdoor",
       "perfect-outdoor", "good-outdoor", "moderate-outdoor" >>

RuleReason(r) ==
    << "Poor weather conditions", "Very windy", "Extreme heat - stay hydrated",
       "Extreme cold - dress warmly", "Ideal conditions",
       IF r.uvindex > 8 THEN "Good weather - use sun protection" ELSE "Good conditions",
       "Fair weather" >>

\* C6: the advice for a reading is that of the first rule, in the fixed order,
\* that the reading matches
C6_FirstMatchingRule ==
    advice.done
        => /\ advice.data.recommendation = RuleAdvice[FirstRule(reading)]
           /\ advice.data.reason = RuleReason(reading)[FirstRule(reading)]

\* C6's case: temp 75 with uvindex 9 fails rule 5 and falls to rule 6
C6_Witness ==
    /\ advice.done
    /\ Has(reading, "conditions") /\ reading.conditions = <<"c", "l", "e", "a", "r">>
    /\ reading.temp = 75 /\ reading.windspeed = 25 /\ reading.uvindex = 9
    /\ advice.data.recommendation = "good-outdoor"
    /\ advice.data.reason = "Good weather - use sun protection"

---------------------------------------------------------------------------
\* Properties of the parser.

\* the lines of a text: the stretches between its newlines
LinesOf(s) ==
    LET nl == {i \in 1..Len(s) : s[i] = "\n"}
        starts == {1} \cup {i + 1 : i \in nl}
        EndOf(a) == Min({i \in nl \cup {Len(s) + 1} : i >= a}) - 1
        Nth(k) == CHOOSE a \in starts : Cardinality({b \in starts : b < a}) = k - 1
    IN  [k \in 1..Cardinality(starts) |-> SubSeq(s, Nth(k), EndOf(Nth(k)))]

\* a line without the white space around it
Trimmed(s) ==
    LET ink == {i \in 1..Len(s) : s[i] \notin WhiteSpace} IN
    IF ink = {} THEN <<>>
    ELSE SubSeq(s, Min(ink), CHOOSE b \in ink : \A j \in ink : j <= b)

\* the length of the bullet marker a line starts with (the bullet and all the
\* white space after it), 0 when it starts with none
BulletMarker(s) ==
    IF \E n \in 2..Len(s) : s[1] \in {"-", "U+2022", "*"}
                              /\ \A j \in 2..n : s[j] \in WhiteSpace
    THEN CHOOSE n \in 2..Len(s) :
             /\ \A j \in 2..n : s[j] \in WhiteSpace
             /\ (n = Len(s) \/ s[n + 1] \notin WhiteSpace)
    ELSE 0

\* the length of the numbered marker a line starts with (digits, '.', and all
\* the white space after it), 0 when it starts with none
NumberedMarker(s) ==
    IF \E d \in 1..Len(s), n \in 3..Len(s) :
           /\ d + 2 <= n
           /\ \A j \in 1..d : s[j] \in Digits
           /\ s[d + 1] = "."
           /\ \A j \in (d + 2)..n : s[j] \in WhiteSpace
    THEN CHOOSE n \in 3..Len(s) :
             /\ \E d \in 1..(n - 2) :
                   /\ \A j \in 1..d : s[j] \in Digits
                   /\ s[d + 1] = "."
                   /\ \A j \in (d + 2)..n : s[j] \in WhiteSpace
             /\ (n = Len(s) \/ s[n + 1] \notin WhiteSpace)
    ELSE 0

Qualifies(s) == BulletMarker(s) > 0 \/ NumberedMarker(s) > 0

Rest(s, n) == SubSeq(s, n + 1, Len(s))

\* what is left of a qualifying line when only the marker it starts with is
\* stripped
RestAfterMarker(s) ==
    IF BulletMarker(s) > 0 THEN Rest(s, BulletMarker(s)) ELSE Rest(s, NumberedMarker(s))

\* what is left of a qualifying line when the bullet marker it starts with, if
\* any, is stripped and then the numbered marker the rest starts with, if any
RestAfterBothMarkers(s) ==
    LET r == Rest(s, BulletMarker(s)) IN Rest(r, NumberedMarker(r))

LongEnough(t) == Len(t) > 10

FirstTen(seq) == [i \in 1..(IF Len(seq) > 10 THEN 10 ELSE Len(seq)) |-> seq[i]]

\* the trimmed lines of a text that qualify, in line order
Candidates(s) ==
    LET lines == LinesOf(s) IN
    SelectSeq([k \in 1..Len(lines) |-> Trimmed(lines[k])], Qualifies)

\* C8: the tips are the first 10, in line order, of the qualifying lines with
\* the marker they start with stripped, the rest being longer than 10
C8_OnlyMatchedMarkerStripped ==
    parsed.done
        => LET cand == Candidates(rawText)
               rests == [k \in 1..Len(cand) |-> RestAfterMarker(cand[k])]
           IN  parsed.tips = FirstTen(SelectSeq(rests, LongEnough))

\* C8 as amended: as above, except that a numbered marker right after the
\* bullet marker is stripped with it
C8_BulletThenNumberStripped ==
    parsed.done
        => LET cand == Candidates(rawText)
               rests == [k \in 1..Len(cand) |-> RestAfterBothMarkers(cand[k])]
           IN  parsed.tips = FirstTen(SelectSeq(rests, LongEnough))

\* C8's case: a bullet line that carries a number was parsed among 10 other
\* tips, and lost both markers
C8_Witness ==
    /\ parsed.done
    /\ Len(parsed.tips) = 10
    /\ parsed.tips[10] = <<"C", "l", "i", "m", "b", " ", "t", "h", "e", " ", "t", "o", "w", "e",
        "r">>
    /\ Len(Candidates(rawText)) > 10

=============================================================================
